---- MODULE Spec2Model ----
(***************************************************************************)
(* A model of SQLFileParser (src/migration.py, lines 88-233): the dump     *)
(* loader parse_sql_file, the table materializer extract_table_data, the   *)
(* value tokenizer parse_values_string and the value normalizer            *)
(* clean_value; and of the worker control of ModernMigrationTool (lines    *)
(* 2049-2603): the Start, Send and Stop handlers, the migration and the    *)
(* email worker threads and the callbacks they hand to root.after.         *)
(*                                                                         *)
(* Text is a sequence of one-character strings.  Python indices are kept   *)
(* 0-based in the variable i; the character i of a text s is s[i + 1].     *)
(***************************************************************************)
EXTENDS Integers, Sequences, FiniteSets, TLC

VARIABLES
    pc,             \* position of the running call
    values_string,  \* parse_values_string: its argument
    i,              \* parse_values_string: scan index (0-based)
    in_quotes,      \* parse_values_string: quoted mode
    quote_char,     \* parse_values_string: the quote that opened quoted mode
    current_value,  \* parse_values_string: token accumulator
    current_row,    \* parse_values_string: row accumulator
    rows,           \* parse_values_string: result accumulator
    fixture,        \* what the dump file was written from: its known content
    file,           \* the file system entry behind file_path
    content,        \* parse_sql_file: the text read from the file
    datasets,       \* parse_sql_file: the datasets extracted so far, in call order
    result,         \* parse_sql_file: the returned Extraction Result
    token,          \* clean_value: its argument
    cleaned,        \* clean_value: the value it returned
    migration_running,  \* ModernMigrationTool: the run flag
    start_btn,      \* ModernMigrationTool: state of the Start button
    stop_btn,       \* ModernMigrationTool: state of the Stop button
    email_btn,      \* ModernMigrationTool: state of the two Send buttons
    password_data,  \* ModernMigrationTool: the number of entries of password_data
    progress_users, \* ModernMigrationTool: progress_data['users']
    threads,        \* the worker threads started so far, in start order
    after_queue     \* the callbacks handed to root.after, not yet run

tok_vars == <<values_string, i, in_quotes, quote_char, current_value, current_row, rows>>
file_vars == <<fixture, file, content, datasets, result>>
clean_vars == <<token, cleaned>>
tool_vars == <<migration_running, start_btn, stop_btn, email_btn, password_data,
               progress_users, threads, after_queue>>
vars == <<pc, tok_vars, file_vars, clean_vars, tool_vars>>

\* ModernMigrationTool after construction: lines 344-354, and the buttons as
\* lines 1027-1080 and 1373-1390 create them; no thread, no callback pending
ToolConstructed ==
    /\ migration_running = FALSE
    /\ start_btn = "normal"
    /\ stop_btn = "disabled"
    /\ email_btn = "disabled"
    /\ password_data = 0
    /\ progress_users = [total |-> 0, completed |-> 0, failed |-> 0]
    /\ threads = <<>>
    /\ after_queue = <<>>

----------------------------------------------------------------------------
(* Bounds of the model.                                                    *)

\* longest text the tokenizer is run on in SpecTok
MaxLen == 4

----------------------------------------------------------------------------
(* Text helpers: Python's str methods on sequences of characters.          *)

\* the character ` (a TLA+ string cannot hold it)
Backtick == "backtick"

\* Python's None, for quote_char
NoChar == "None"

\* str.strip() and the regex class \s: ASCII whitespace
IsSpace(c) == c \in {" ", "\t", "\n", "\r", "\f"}

Lowers == <<"a","b","c","d","e","f","g","h","i","j","k","l","m",
            "n","o","p","q","r","s","t","u","v","w","x","y","z">>
Uppers == <<"A","B","C","D","E","F","G","H","I","J","K","L","M",
            "N","O","P","Q","R","S","T","U","V","W","X","Y","Z">>

\* str.upper() on one character (also the case folding of re.IGNORECASE)
UpperChar(c) ==
    IF \E k \in 1..26 : Lowers[k] = c
    THEN Uppers[CHOOSE k \in 1..26 : Lowers[k] = c]
    ELSE c

Upper(s) == [k \in 1..Len(s) |-> UpperChar(s[k])]

RECURSIVE LStrip(_)
LStrip(s) ==
    IF s # <<>> /\ IsSpace(Head(s)) THEN LStrip(Tail(s)) ELSE s

RECURSIVE RStrip(_)
RStrip(s) ==
    IF s # <<>> /\ IsSpace(s[Len(s)]) THEN RStrip(SubSeq(s, 1, Len(s) - 1)) ELSE s

\* str.strip()
Strip(s) == RStrip(LStrip(s))

\* str.startswith(p)
StartsWith(s, p) == Len(s) >= Len(p) /\ SubSeq(s, 1, Len(p)) = p

\* str.endswith(p)
EndsWith(s, p) == Len(s) >= Len(p) /\ SubSeq(s, Len(s) - Len(p) + 1, Len(s)) = p

\* str.replace(old, new): left to right, non-overlapping
RECURSIVE Replace(_, _, _)
Replace(s, old, new) ==
    IF Len(s) < Len(old) THEN s
    ELSE IF SubSeq(s, 1, Len(old)) = old
         THEN new \o Replace(SubSeq(s, Len(old) + 1, Len(s)), old, new)
         ELSE <<Head(s)>> \o Replace(Tail(s), old, new)

----------------------------------------------------------------------------
(* Values: None or a text.                                                 *)

None == [null |-> TRUE, text |-> <<>>]
Text(s) == [null |-> FALSE, text |-> s]

\* value[1:-1]
Inner(value) == SubSeq(value, 2, Len(value) - 1)

\* a normalizer that also resolves a doubled quote to one quote
clean_value_doubled(v) ==
    LET value == Strip(v) IN
    IF Upper(value) = <<"N","U","L","L">> THEN None
    ELSE IF StartsWith(value, <<"'">>) /\ EndsWith(value, <<"'">>)
         THEN Text(Replace(Replace(Replace(Inner(value), <<"'", "'">>, <<"'">>),
                                   <<"\\", "'">>, <<"'">>),
                           <<"\\", "\\">>, <<"\\">>))
    ELSE IF StartsWith(value, <<"\"">>) /\ EndsWith(value, <<"\"">>)
         THEN Text(Replace(Replace(Inner(value), <<"\\", "\"">>, <<"\"">>),
                           <<"\\", "\\">>, <<"\\">>))
    ELSE Text(value)

\* a normalizer that knows only the upper-case spelling NULL
clean_value_exact(v) ==
    LET value == Strip(v) IN
    IF value = <<"N","U","L","L">> THEN None
    ELSE IF StartsWith(value, <<"'">>) /\ EndsWith(value, <<"'">>)
         THEN Text(Replace(Replace(Inner(value), <<"\\", "'">>, <<"'">>),
                           <<"\\", "\\">>, <<"\\">>))
    ELSE IF StartsWith(value, <<"\"">>) /\ EndsWith(value, <<"\"">>)
         THEN Text(Replace(Replace(Inner(value), <<"\\", "\"">>, <<"\"">>),
                           <<"\\", "\\">>, <<"\\">>))
    ELSE Text(value)

\* a normalizer that resolves the escaped backslash before the escaped quote
clean_value_swapped(v) ==
    LET value == Strip(v) IN
    IF Upper(value) = <<"N","U","L","L">> THEN None
    ELSE IF StartsWith(value, <<"'">>) /\ EndsWith(value, <<"'">>)
         THEN Text(Replace(Replace(Inner(value), <<"\\", "\\">>, <<"\\">>),
                           <<"\\", "'">>, <<"'">>))
    ELSE IF StartsWith(value, <<"\"">>) /\ EndsWith(value, <<"\"">>)
         THEN Text(Replace(Replace(Inner(value), <<"\\", "\\">>, <<"\\">>),
                           <<"\\", "\"">>, <<"\"">>))
    ELSE Text(value)

\* clean_value, lines 220-233
clean_value(v) ==
    LET value == Strip(v) IN
    IF Upper(value) = <<"N","U","L","L">> THEN None
    ELSE IF StartsWith(value, <<"'">>) /\ EndsWith(value, <<"'">>)
         THEN Text(Replace(Replace(Inner(value), <<"\\", "'">>, <<"'">>),
                           <<"\\", "\\">>, <<"\\">>))
    ELSE IF StartsWith(value, <<"\"">>) /\ EndsWith(value, <<"\"">>)
         THEN Text(Replace(Replace(Inner(value), <<"\\", "\"">>, <<"\"">>),
                           <<"\\", "\\">>, <<"\\">>))
    ELSE Text(value)

----------------------------------------------------------------------------
(* parse_values_string, lines 169-217.  The scan state is the record       *)
(* [i, in_quotes, quote_char, current_value, current_row, rows].           *)

\* lines 171-176
InitScan ==
    [i |-> 0, in_quotes |-> FALSE, quote_char |-> NoChar,
     current_value |-> <<>>, current_row |-> <<>>, rows |-> <<>>]

\* a tokenizer that skips nothing after ')'
SkipToParenNone(vs, k) == k

\* lines 197-198: the inner while loop, from index k
RECURSIVE SkipToParen(_, _)
SkipToParen(vs, k) ==
    IF k < Len(vs) - 1 /\ vs[k + 2] # "(" THEN SkipToParen(vs, k + 1) ELSE k

\* lines 189-200: ')' outside quotes (the final i += 1 of line 209 is ScanIter's)
CloseRow(vs, st) ==
    LET row1 == IF Strip(st.current_value) # <<>>
                THEN Append(st.current_row, clean_value(Strip(st.current_value)))
                ELSE st.current_row
        rows1 == IF row1 # <<>> THEN Append(st.rows, row1) ELSE st.rows
        k1 == SkipToParen(vs, st.i)
        k2 == IF k1 < Len(vs) - 1 THEN k1 + 1 ELSE k1
    IN  [st EXCEPT !.rows = rows1, !.current_row = <<>>,
                   !.current_value = <<>>, !.i = k2]

\* a tokenizer that drops an empty token at ','
OutsideQuotesDropEmpty(vs, st) ==
    LET char == vs[st.i + 1] IN
    IF char \in {"'", "\""}
    THEN [st EXCEPT !.in_quotes = TRUE, !.quote_char = char,
                    !.current_value = Append(@, char)]
    ELSE IF char = ","
    THEN [st EXCEPT !.current_row = IF Strip(st.current_value) # <<>>
                                    THEN Append(@, clean_value(Strip(st.current_value)))
                                    ELSE @,
                    !.current_value = <<>>]
    ELSE IF char = ")"
    THEN CloseRow(vs, st)
    ELSE [st EXCEPT !.current_value = Append(@, char)]

\* a tokenizer that enters quoted mode without recording the quote
OutsideQuotesNoChar(vs, st) ==
    LET char == vs[st.i + 1] IN
    IF char \in {"'", "\""}
    THEN [st EXCEPT !.in_quotes = TRUE, !.current_value = Append(@, char)]
    ELSE IF char = ","
    THEN [st EXCEPT !.current_row = Append(@, clean_value(Strip(st.current_value))),
                    !.current_value = <<>>]
    ELSE IF char = ")"
    THEN CloseRow(vs, st)
    ELSE [st EXCEPT !.current_value = Append(@, char)]

\* lines 182-202: the branch taken when not in_quotes
OutsideQuotes(vs, st) ==
    LET char == vs[st.i + 1] IN
    IF char \in {"'", "\""}
    THEN [st EXCEPT !.in_quotes = TRUE, !.quote_char = char,
                    !.current_value = Append(@, char)]
    ELSE IF char = ","
    THEN [st EXCEPT !.current_row = Append(@, clean_value(Strip(st.current_value))),
                    !.current_value = <<>>]
    ELSE IF char = ")"
    THEN CloseRow(vs, st)
    ELSE [st EXCEPT !.current_value = Append(@, char)]

\* a tokenizer that splits on ',' and ')' whatever the quote state
InsideQuotesSplitting(vs, st) ==
    LET char == vs[st.i + 1] IN
    IF char \in {",", ")"}
    THEN OutsideQuotes(vs, st)
    ELSE IF char = st.quote_char /\ (st.i = 0 \/ vs[st.i] # "\\")
         THEN [st EXCEPT !.current_value = Append(@, char),
                         !.in_quotes = FALSE, !.quote_char = NoChar]
         ELSE [st EXCEPT !.current_value = Append(@, char)]

\* a tokenizer that closes the quote on every quote_char, escaped or not
InsideQuotesUnescaped(vs, st) ==
    LET char == vs[st.i + 1] IN
    IF char = st.quote_char
    THEN [st EXCEPT !.current_value = Append(@, char),
                    !.in_quotes = FALSE, !.quote_char = NoChar]
    ELSE [st EXCEPT !.current_value = Append(@, char)]

\* a tokenizer that closes the quote on either quote character
InsideQuotesEitherQuote(vs, st) ==
    LET char == vs[st.i + 1] IN
    IF char \in {"'", "\""} /\ (st.i = 0 \/ vs[st.i] # "\\")
    THEN [st EXCEPT !.current_value = Append(@, char),
                    !.in_quotes = FALSE, !.quote_char = NoChar]
    ELSE [st EXCEPT !.current_value = Append(@, char)]

\* lines 204-207: the branch taken when in_quotes
InsideQuotes(vs, st) ==
    LET char == vs[st.i + 1] IN
    IF char = st.quote_char /\ (st.i = 0 \/ vs[st.i] # "\\")
    THEN [st EXCEPT !.current_value = Append(@, char),
                    !.in_quotes = FALSE, !.quote_char = NoChar]
    ELSE [st EXCEPT !.current_value = Append(@, char)]

\* an iteration without the i += 1 of line 209
ScanIterNoAdvance(vs, st) ==
    IF ~st.in_quotes THEN OutsideQuotes(vs, st) ELSE InsideQuotes(vs, st)

\* lines 179-209: one iteration of the outer while loop
ScanIter(vs, st) ==
    LET st1 == IF ~st.in_quotes THEN OutsideQuotes(vs, st) ELSE InsideQuotes(vs, st)
    IN  [st1 EXCEPT !.i = @ + 1]

\* a return without the flush of lines 212-215
FlushNone(st) == st.rows

\* lines 211-217: the flush after the loop; the rows returned
Flush(st) ==
    LET row1 == IF Strip(st.current_value) # <<>>
                THEN Append(st.current_row, clean_value(Strip(st.current_value)))
                ELSE st.current_row
    IN  IF row1 # <<>> THEN Append(st.rows, row1) ELSE st.rows

\* line 178: the outer while loop, run to its end
RECURSIVE RunScan(_, _)
RunScan(vs, st) ==
    IF st.i < Len(vs) THEN RunScan(vs, ScanIter(vs, st)) ELSE st

\* parse_values_string as a function of its argument
parse_values_string(vs) == Flush(RunScan(vs, InitScan))

----------------------------------------------------------------------------
(* extract_table_data, lines 117-166: the two regular expressions, the     *)
(* column list and the zip of rows to columns.  Positions in a text are    *)
(* 1-based here; 0 stands for "no match".                                  *)

\* re.IGNORECASE: the literal lit matches s at position p
MatchAtCI(s, p, lit) ==
    /\ p >= 1
    /\ p + Len(lit) - 1 <= Len(s)
    /\ \A k \in 1..Len(lit) : UpperChar(s[p + k - 1]) = UpperChar(lit[k])

\* the first position >= from where lit matches, or 0
FindLit(s, lit, from) ==
    LET cands == {p \in from..(Len(s) - Len(lit) + 1) : MatchAtCI(s, p, lit)}
    IN  IF cands = {} THEN 0 ELSE CHOOSE p \in cands : \A q \in cands : p <= q

\* the first position >= from holding the character c, or 0
FindChar(s, c, from) ==
    LET cands == {p \in from..Len(s) : s[p] = c}
    IN  IF cands = {} THEN 0 ELSE CHOOSE p \in cands : \A q \in cands : p <= q

\* \s*, greedy: the first position >= p that holds no whitespace (Len(s) + 1 at the end)
RECURSIVE SkipSpaces(_, _)
SkipSpaces(s, p) ==
    IF p <= Len(s) /\ IsSpace(s[p]) THEN SkipSpaces(s, p + 1) ELSE p

KwInsertInto == <<"I","N","S","E","R","T"," ","I","N","T","O"," ",Backtick>>
KwValues == <<"V","A","L","U","E","S">>
KwCreateTable == <<"C","R","E","A","T","E"," ","T","A","B","L","E"," ",Backtick>>
KwEngine == <<"E","N","G","I","N","E">>

\* line 121: the literal head of the pattern, INSERT INTO `<table_name>`
InsertHead(table_name) == KwInsertInto \o table_name \o <<Backtick>>

\* line 128: the literal head of the pattern, CREATE TABLE `<table_name>`
CreateHead(table_name) == KwCreateTable \o table_name \o <<Backtick>>

\* line 121: the pattern tried at position p: .*?VALUES takes the first VALUES
\* after the head, \s* the whitespace after it, (.*?); the text up to the first ';'
MatchInsertAt(s, p, table_name) ==
    LET q == FindLit(s, KwValues, p + Len(InsertHead(table_name)))
        r == SkipSpaces(s, q + Len(KwValues))
        e == IF q = 0 THEN 0 ELSE FindChar(s, ";", r)
    IN  IF e = 0
        THEN [ok |-> FALSE, group |-> <<>>, next |-> p + 1]
        ELSE [ok |-> TRUE, group |-> SubSeq(s, r, e - 1), next |-> e + 1]

\* line 122: re.findall from position from: the captured groups, in text order
RECURSIVE FindAllInsert(_, _, _)
FindAllInsert(s, table_name, from) ==
    LET p == FindLit(s, InsertHead(table_name), from) IN
    IF p = 0 THEN <<>>
    ELSE LET m == MatchInsertAt(s, p, table_name)
         IN  IF m.ok THEN <<m.group>> \o FindAllInsert(s, table_name, m.next)
             ELSE FindAllInsert(s, table_name, p + 1)

\* the end of group 1 of the CREATE pattern: the first ')' at or after from that
\* is followed by \s*ENGINE, or 0
RECURSIVE FindCreateEnd(_, _)
FindCreateEnd(s, from) ==
    LET e == FindChar(s, ")", from) IN
    IF e = 0 THEN 0
    ELSE IF MatchAtCI(s, SkipSpaces(s, e + 1), KwEngine) THEN e
    ELSE FindCreateEnd(s, e + 1)

\* line 128: the pattern tried at position p
MatchCreateAt(s, p, table_name) ==
    LET r == SkipSpaces(s, p + Len(CreateHead(table_name)))
        e == IF r <= Len(s) /\ s[r] = "(" THEN FindCreateEnd(s, r + 1) ELSE 0
    IN  IF e = 0
        THEN [ok |-> FALSE, group |-> <<>>]
        ELSE [ok |-> TRUE, group |-> SubSeq(s, r + 1, e - 1)]

\* line 129: re.search from position from: the first position where the pattern matches
RECURSIVE SearchCreate(_, _, _)
SearchCreate(s, table_name, from) ==
    LET p == FindLit(s, CreateHead(table_name), from) IN
    IF p = 0 THEN [ok |-> FALSE, group |-> <<>>]
    ELSE LET m == MatchCreateAt(s, p, table_name)
         IN  IF m.ok THEN m ELSE SearchCreate(s, table_name, p + 1)

\* str.split(c)
RECURSIVE Split(_, _)
Split(s, c) ==
    LET e == FindChar(s, c, 1) IN
    IF e = 0 THEN <<s>>
    ELSE <<SubSeq(s, 1, e - 1)>> \o Split(SubSeq(s, e + 1, Len(s)), c)

\* a filter that takes every line holding a quoted name
IsColumnLineLoose(line) ==
    \E k \in 1..Len(line) : line[k] = Backtick

\* line 137: the stripped line declares a column
IsColumnLine(line) ==
    /\ StartsWith(line, <<Backtick>>)
    /\ ~StartsWith(line, <<"P","R","I","M","A","R","Y">>)
    /\ ~StartsWith(line, <<"K","E","Y">>)

\* lines 135-139: the column names of the lines of column_defs
RECURSIVE ColumnNames(_)
ColumnNames(lines) ==
    IF lines = <<>> THEN <<>>
    ELSE LET line == Strip(Head(lines)) IN
         IF IsColumnLine(line)
         THEN <<Split(line, Backtick)[2]>> \o ColumnNames(Tail(lines))
         ELSE ColumnNames(Tail(lines))

\* lines 127-139: the column list of table_name
Columns(sql_content, table_name) ==
    LET create_match == SearchCreate(sql_content, table_name, 1) IN
    IF create_match.ok THEN ColumnNames(Split(create_match.group, "\n")) ELSE <<>>

\* row_dict[col] = v on a dict kept as a sequence of <<key, value>> in insertion order
DictSet(d, col, v) ==
    IF \E k \in 1..Len(d) : d[k][1] = col
    THEN [k \in 1..Len(d) |-> IF d[k][1] = col THEN <<col, v>> ELSE d[k]]
    ELSE Append(d, <<col, v>>)

\* a materializer that gives column n the value n places from the end of the row
RECURSIVE RowDictMirrored(_, _, _)
RowDictMirrored(columns, row, n) ==
    IF n = 0 THEN <<>>
    ELSE DictSet(RowDictMirrored(columns, row, n - 1), columns[n], row[Len(row) - n + 1])

\* lines 157-159: row_dict for one row, columns 1..n done
RECURSIVE RowDict(_, _, _)
RowDict(columns, row, n) ==
    IF n = 0 THEN <<>>
    ELSE DictSet(RowDict(columns, row, n - 1), columns[n], row[n])

\* a check that keeps a row with at least as many values as columns
ArityAtLeast(row, columns) == Len(row) >= Len(columns)

\* line 156: the row is kept
ArityMatches(row, columns) == Len(row) = Len(columns)

\* lines 155-160: the records of the rows of one statement
RECURSIVE RowRecords(_, _)
RowRecords(rws, columns) ==
    IF rws = <<>> THEN <<>>
    ELSE IF ArityMatches(Head(rws), columns)
         THEN <<RowDict(columns, Head(rws), Len(columns))>> \o RowRecords(Tail(rws), columns)
         ELSE RowRecords(Tail(rws), columns)

\* lines 144-150: the text handed to the tokenizer
ValuesText(match) ==
    LET t0 == Strip(match)
        t1 == IF StartsWith(t0, <<"(">>) THEN Tail(t0) ELSE t0
    IN  IF EndsWith(t1, <<")">>) THEN SubSeq(t1, 1, Len(t1) - 1) ELSE t1

\* a materializer that puts the records of a later statement first
RECURSIVE AllDataReversed(_, _)
AllDataReversed(matches, columns) ==
    IF matches = <<>> THEN <<>>
    ELSE AllDataReversed(Tail(matches), columns)
         \o RowRecords(parse_values_string(ValuesText(Head(matches))), columns)

\* lines 142-160: all_data over the matches, in order
RECURSIVE AllData(_, _)
AllData(matches, columns) ==
    IF matches = <<>> THEN <<>>
    ELSE RowRecords(parse_values_string(ValuesText(Head(matches))), columns)
         \o AllData(Tail(matches), columns)

\* line 138: line.split('`')[1] raises IndexError on a column line with no second part
RECURSIVE ColumnNamesRaise(_)
ColumnNamesRaise(lines) ==
    IF lines = <<>> THEN FALSE
    ELSE LET line == Strip(Head(lines)) IN
         \/ IsColumnLine(line) /\ Len(Split(line, Backtick)) < 2
         \/ ColumnNamesRaise(Tail(lines))

\* lines 127-139 raise
ColumnsRaise(sql_content, table_name) ==
    LET create_match == SearchCreate(sql_content, table_name, 1) IN
    create_match.ok /\ ColumnNamesRaise(Split(create_match.group, "\n"))

\* extract_table_data, lines 117-166; the handler of lines 164-166 returns []
extract_table_data(sql_content, table_name) ==
    LET matches == FindAllInsert(sql_content, table_name, 1) IN
    IF matches = <<>> THEN <<>>
    ELSE IF ColumnsRaise(sql_content, table_name) THEN <<>>
    ELSE AllData(matches, Columns(sql_content, table_name))

----------------------------------------------------------------------------
(* parse_sql_file, lines 92-114.                                           *)

\* lines 99-103: the table names, in call order
TableNames ==
    << <<"i","s","_","u","s","e","r">>,
       <<"i","s","_","a","d","m","i","n">>,
       <<"i","s","_","a","c","c","o","u","n","t">>,
       <<"i","s","_","t","i","c","k","e","t">>,
       <<"i","s","_","s","s","l">> >>

is_user == TableNames[1]
is_admin == TableNames[2]

\* a loader that reads a file it cannot open as an empty dump
ReadOutcomeLenient(f) ==
    IF f.exists /\ f.decodable
    THEN [raised |-> FALSE, content |-> f.text]
    ELSE [raised |-> FALSE, content |-> <<>>]

\* lines 94-96: open and read; a missing or undecodable file raises
ReadOutcome(f) ==
    IF f.exists /\ f.decodable
    THEN [raised |-> FALSE, content |-> f.text]
    ELSE [raised |-> TRUE, content |-> <<>>]

\* a materializer that raises when the table has no INSERT statement
ExtractOutcomeStrict(sql_content, table_name) ==
    [raised |-> FindAllInsert(sql_content, table_name, 1) = <<>>,
     value |-> extract_table_data(sql_content, table_name)]

\* lines 99-103: one call of extract_table_data as parse_sql_file sees it; the
\* callee catches every Exception (line 164), so nothing is raised here
ExtractOutcome(sql_content, table_name) ==
    [raised |-> FALSE, value |-> extract_table_data(sql_content, table_name)]

\* lines 105-111: the Extraction Result
ResultOf(ds) ==
    [users |-> ds[1], admins |-> ds[2], accounts |-> ds[3],
     tickets |-> ds[4], ssl |-> ds[5]]

----------------------------------------------------------------------------
(* The tokenizer run step by step on an arbitrary text (SpecTok).          *)

\* the characters the tokenizer tells apart, and one of the others
TokAlphabet == {"'", "\"", ",", ")", "(", "\\", "a", " "}

RECURSIVE TextsUpTo(_)
TextsUpTo(n) ==
    IF n = 0 THEN {<<>>}
    ELSE LET shorter == TextsUpTo(n - 1)
         IN  shorter \cup {Append(t, c) : t \in {u \in shorter : Len(u) = n - 1},
                                          c \in TokAlphabet}

\* the scan state held in the variables
ScanState ==
    [i |-> i, in_quotes |-> in_quotes, quote_char |-> quote_char,
     current_value |-> current_value, current_row |-> current_row, rows |-> rows]

SetScanState(st) ==
    /\ i' = st.i
    /\ in_quotes' = st.in_quotes
    /\ quote_char' = st.quote_char
    /\ current_value' = st.current_value
    /\ current_row' = st.current_row
    /\ rows' = st.rows

\* no file is involved in a direct call of parse_values_string
NoFile == [exists |-> FALSE, decodable |-> FALSE, text |-> <<>>]
NoFixture == [kind |-> "none"]
NoResult == [users |-> <<>>, admins |-> <<>>, accounts |-> <<>>,
             tickets |-> <<>>, ssl |-> <<>>]

\* a call parse_values_string(values_string): lines 171-176 done
InitTok ==
    /\ pc = "scan"
    /\ values_string \in TextsUpTo(MaxLen)
    /\ i = InitScan.i
    /\ in_quotes = InitScan.in_quotes
    /\ quote_char = InitScan.quote_char
    /\ current_value = InitScan.current_value
    /\ current_row = InitScan.current_row
    /\ rows = InitScan.rows
    /\ fixture = NoFixture
    /\ file = NoFile
    /\ content = <<>>
    /\ datasets = <<>>
    /\ result = NoResult
    /\ token = <<>>
    /\ cleaned = None
    /\ ToolConstructed

\* lines 178-209: one iteration of the while loop
ScanStep ==
    /\ pc = "scan"
    /\ i < Len(values_string)
    /\ SetScanState(ScanIter(values_string, ScanState))
    /\ UNCHANGED <<pc, values_string, file_vars, clean_vars, tool_vars>>

\* lines 211-217: the loop has ended; flush and return rows
ScanReturn ==
    /\ pc = "scan"
    /\ i >= Len(values_string)
    /\ rows' = Flush(ScanState)
    /\ pc' = "tok_done"
    /\ UNCHANGED <<values_string, i, in_quotes, quote_char, current_value,
                   current_row, file_vars, clean_vars, tool_vars>>

NextTok == ScanStep \/ ScanReturn

SpecTok == InitTok /\ [][NextTok]_vars

----------------------------------------------------------------------------
(* The normalizer called on one token (SpecClean).                         *)

\* longest text between the quotes of a token, and longest bare token
MaxBody == 3

\* the characters the normalizer tells apart, a letter and a digit
CleanAlphabet == {"'", "\"", "\\", "a", "1"}

RECURSIVE TextsOver(_, _)
TextsOver(alphabet, n) ==
    IF n = 0 THEN {<<>>}
    ELSE LET shorter == TextsOver(alphabet, n - 1)
         IN  shorter \cup {Append(t, c) : t \in {u \in shorter : Len(u) = n - 1},
                                          c \in alphabet}

Bodies == TextsOver(CleanAlphabet, MaxBody)

\* the sixteen spellings of NULL
NullSpellings ==
    { <<n, u, l1, l2>> : n \in {"N", "n"}, u \in {"U", "u"},
                         l1 \in {"L", "l"}, l2 \in {"L", "l"} }

Pads == {<<>>, <<" ">>, <<" ", " ">>}

\* b between a pair of the quote q
Quoted(q, b) == <<q>> \o b \o <<q>>

\* a NULL spelling with white space around it
PaddedNulls == { a \o n \o b : a \in Pads, n \in NullSpellings, b \in Pads }

\* bare texts, quoted texts, NULL spellings bare, padded and quoted
CleanTokens ==
    Bodies
    \cup { Quoted(q, b) : q \in {"'", "\""}, b \in Bodies \cup NullSpellings }
    \cup PaddedNulls

\* a call clean_value(token)
InitClean ==
    /\ pc = "clean"
    /\ token \in CleanTokens
    /\ cleaned = None
    /\ ToolConstructed
    /\ values_string = <<>>
    /\ i = InitScan.i
    /\ in_quotes = InitScan.in_quotes
    /\ quote_char = InitScan.quote_char
    /\ current_value = InitScan.current_value
    /\ current_row = InitScan.current_row
    /\ rows = InitScan.rows
    /\ fixture = NoFixture
    /\ file = NoFile
    /\ content = <<>>
    /\ datasets = <<>>
    /\ result = NoResult

\* lines 220-233: the call returns
CleanReturn ==
    /\ pc = "clean"
    /\ cleaned' = clean_value(token)
    /\ pc' = "cleaned"
    /\ UNCHANGED <<token, tok_vars, file_vars, tool_vars>>

NextClean == CleanReturn

SpecClean == InitClean /\ [][NextClean]_vars

----------------------------------------------------------------------------
(* The tokenizer run to its return (SpecTokFair).                          *)

\* longest text the tokenizer is run on in SpecTokFair
MaxLenFair == 4

\* the characters that decide how the scan index moves, and one of the others
FairAlphabet == {"'", ")", "(", "a"}

\* a call parse_values_string(values_string): lines 171-176 done
InitTokFair ==
    /\ pc = "scan"
    /\ values_string \in TextsOver(FairAlphabet, MaxLenFair)
    /\ i = InitScan.i
    /\ in_quotes = InitScan.in_quotes
    /\ quote_char = InitScan.quote_char
    /\ current_value = InitScan.current_value
    /\ current_row = InitScan.current_row
    /\ rows = InitScan.rows
    /\ fixture = NoFixture
    /\ file = NoFile
    /\ content = <<>>
    /\ datasets = <<>>
    /\ result = NoResult
    /\ token = <<>>
    /\ cleaned = None
    /\ ToolConstructed

\* the thread that runs the call goes on running it: a call that can take a
\* step takes it
SpecTokFair == InitTokFair /\ [][NextTok]_vars /\ WF_vars(NextTok)

----------------------------------------------------------------------------
(* Dump files with known content.  A fixture names the columns of the      *)
(* CREATE TABLE block of is_user and the INSERT statements of the dump;    *)
(* Render writes it the way a dump tool does.                              *)

\* most rows of a fixture
MaxRows == 2
\* most columns of a fixture
MaxCols == 2

Digits == <<"0","1","2","3","4","5","6","7","8","9">>

\* a field of a tuple: NULL, a text written as a quoted literal, or literal text
NullField == [k |-> "null", v |-> <<>>]
StrField(v) == [k |-> "str", v |-> v]
RawField(v) == [k |-> "raw", v |-> v]

\* the Value a field stands for
Known(f) == IF f.k = "null" THEN None ELSE Text(f.v)

\* backslash-escaping of a text inside single quotes
RECURSIVE Escape(_)
Escape(v) ==
    IF v = <<>> THEN <<>>
    ELSE (IF Head(v) \in {"\\", "'"} THEN <<"\\", Head(v)>> ELSE <<Head(v)>>)
         \o Escape(Tail(v))

RenderField(f) ==
    IF f.k = "null" THEN <<"N","U","L","L">>
    ELSE IF f.k = "str" THEN <<"'">> \o Escape(f.v) \o <<"'">>
    ELSE f.v

\* the texts of seq joined by sep
RECURSIVE Join(_, _)
Join(seq, sep) ==
    IF seq = <<>> THEN <<>>
    ELSE IF Len(seq) = 1 THEN seq[1]
    ELSE seq[1] \o sep \o Join(Tail(seq), sep)

RenderTuple(row, sep) ==
    <<"(">> \o Join([c \in 1..Len(row) |-> RenderField(row[c])], sep) \o <<")">>

\* the tuple-list of a statement
TupleList(st, sep) ==
    Join([r \in 1..Len(st.rows) |-> RenderTuple(st.rows[r], sep)], <<",">>)

\* the ways a statement is written from INSERT to VALUES
Heads == {"plain", "lower", "collist", "nlvalues", "spaces", "nlname"}

\* the text of a statement from INSERT up to its tuple-list
RenderHead(head, table) ==
    LET name == <<Backtick>> \o table \o <<Backtick>> IN
    IF head = "lower"
    THEN <<"i","n","s","e","r","t"," ","i","n","t","o"," ">> \o name
         \o <<" ","v","a","l","u","e","s"," ">>
    ELSE IF head = "collist"
    THEN InsertHead(table)
         \o <<" ","(",Backtick,"c","2",Backtick,","," ",Backtick,"c","1",Backtick,")">>
         \o <<" ","V","A","L","U","E","S"," ">>
    ELSE IF head = "nlvalues"
    THEN InsertHead(table) \o <<"\n","V","A","L","U","E","S","\n">>
    ELSE IF head = "spaces"
    THEN <<"I","N","S","E","R","T"," ","I","N","T","O"," "," ">> \o name
         \o <<" ","V","A","L","U","E","S"," ">>
    ELSE IF head = "nlname"
    THEN <<"I","N","S","E","R","T"," ","I","N","T","O","\n">> \o name
         \o <<" ","V","A","L","U","E","S"," ">>
    ELSE InsertHead(table) \o <<" ","V","A","L","U","E","S"," ">>

RenderStmt(st, sep) ==
    RenderHead(st.head, st.table) \o TupleList(st, sep) \o <<";", "\n">>

ColumnLine(name) == <<" ", " ", Backtick>> \o name \o <<Backtick," ","t","e","x","t">>
PrimaryKeyLine(name) == <<" "," ","P","R","I","M","A","R","Y"," ","K","E","Y"," ","(",Backtick>> \o name \o <<Backtick, ")">>
KeyLine(name) == <<" "," ","K","E","Y"," ",Backtick,"i","d","x",Backtick," ","(",Backtick>> \o name \o <<Backtick, ")">>

\* the lines of the body of the CREATE TABLE block
BodyLines(create, cols) ==
    LET lines == [c \in 1..Len(cols) |-> ColumnLine(cols[c])] IN
    IF create = "mixed"
    THEN <<lines[1], PrimaryKeyLine(cols[1])>> \o Tail(lines) \o <<KeyLine(cols[1])>>
    ELSE lines

RenderCreate(create, cols) ==
    IF create = "none" THEN <<>>
    ELSE CreateHead(is_user) \o <<" ", "(", "\n">>
         \o Join(BodyLines(create, cols), <<",", "\n">>)
         \o <<"\n",")"," ","E","N","G","I","N","E","=","I","n","n","o","D","B",";","\n">>

RECURSIVE RenderStmts(_, _)
RenderStmts(stmts, sep) ==
    IF stmts = <<>> THEN <<>>
    ELSE RenderStmt(Head(stmts), sep) \o RenderStmts(Tail(stmts), sep)

Render(fx) == RenderCreate(fx.create, fx.cols) \o RenderStmts(fx.stmts, fx.sep)

Fixture(kind, create, cols, stmts, sep) ==
    [kind |-> kind, create |-> create, cols |-> cols, stmts |-> stmts, sep |-> sep]

StmtHeaded(table, rws, head) == [table |-> table, rows |-> rws, head |-> head]
Stmt(table, rws) == StmtHeaded(table, rws, "plain")

\* column names c1, c2, ...
ColName(c) == <<"c", Digits[c + 1]>>
ColNames(m) == [c \in 1..m |-> ColName(c)]

\* the field of row r, column c of a grid: 1a, 1b, 2a, ...
GridField(r, c) == StrField(<<Digits[r + 1], Lowers[c]>>)
Grid(n, m) == [r \in 1..n |-> [c \in 1..m |-> GridField(r, c)]]

\* fields that exercise the tokenizer and the normalizer
SpecialFields ==
    { NullField,
      StrField(<<"a", ",", "b">>),
      StrField(<<"a", ")", ",", "(", "b">>),
      StrField(<<"i", "t", "'", "s">>),
      StrField(<<"a", "\\", "b">>),
      StrField(<<"a", "\\">>),
      StrField(<<"a", ";", "b">>),
      StrField(<<"N", "U", "L", "L">>),
      StrField(<<>>) }

\* a grid with the field of row r, column c replaced
WithField(grid, r, c, f) == [grid EXCEPT ![r][c] = f]

\* a grid whose row r has one field fewer (dev = -1) or one more (dev = 1)
WithArity(grid, r, dev) ==
    IF dev = 0 THEN grid
    ELSE IF dev = 1 THEN [grid EXCEPT ![r] = Append(@, StrField(<<"z", "z">>))]
    ELSE [grid EXCEPT ![r] = SubSeq(@, 1, Len(@) - 1)]

\* an INSERT statement for another table
OtherStmt == Stmt(is_admin, << <<StrField(<<"o", "1">>), StrField(<<"o", "2">>)>> >>)

\* the rows in one statement (k = 0) or split after row k, with or without a
\* statement for another table after the first
Stmts(grid, k, other) ==
    LET first == IF k = 0 THEN <<Stmt(is_user, grid)>>
                 ELSE <<Stmt(is_user, SubSeq(grid, 1, k))>>
        rest  == IF k = 0 THEN <<>>
                 ELSE <<Stmt(is_user, SubSeq(grid, k + 1, Len(grid)))>>
    IN  first \o (IF other THEN <<OtherStmt>> ELSE <<>>) \o rest

\* one field of a grid is special
SpecialFixtures ==
    { Fixture("dump", "plain", ColNames(m), Stmts(WithField(Grid(n, m), r, c, f), 0, FALSE), <<",">>) :
        <<n, m, r, c, f>> \in
            { t \in (1..MaxRows) \X (1..MaxCols) \X (1..MaxRows) \X (1..MaxCols) \X SpecialFields :
                t[3] <= t[1] /\ t[4] <= t[2] } }

\* one row of a grid may have the wrong arity
ArityFixtures ==
    { Fixture("dump", t[1], ColNames(t[3]),
              Stmts(WithArity(Grid(t[2], t[3]), t[4], t[5]), t[6], t[7]), <<",">>) :
        t \in { u \in {"plain", "mixed", "none"} \X (1..MaxRows) \X (1..MaxCols)
                      \X (1..MaxRows) \X {-1, 0, 1} \X (0..(MaxRows - 1)) \X BOOLEAN :
                  u[4] <= u[2] /\ u[6] < u[2] } }

\* the tuple (NULL, 'a,b', 'it''s') against the columns col1, col2, col3
DoubledQuoteFixture ==
    Fixture("dump", "plain",
            << <<"c","o","l","1">>, <<"c","o","l","2">>, <<"c","o","l","3">> >>,
            << Stmt(is_user, << << NullField,
                                   RawField(<<"'","a",",","b","'">>),
                                   RawField(<<"'","i","t","'","'","s","'">>) >> >>) >>,
            <<",", " ">>)

\* the tuple-list ('x','1'),('y','2') against two columns
TwoTuplesFixture ==
    Fixture("dump", "plain", ColNames(2),
            << Stmt(is_user, << << RawField(<<"'", "x", "'">>), RawField(<<"'", "1", "'">>) >>,
                                << RawField(<<"'", "y", "'">>), RawField(<<"'", "2", "'">>) >> >>) >>,
            <<",">>)

\* longest malformed tuple text of a fixture
MaxGarbage == 2

\* one statement whose tuple is an arbitrary text
GarbageFixtures ==
    { Fixture("dump", "plain", ColNames(2), <<Stmt(is_user, << <<RawField(g)>> >>)>>, <<",">>) :
        g \in TextsUpTo(MaxGarbage) }

\* one statement for two columns, written in each of the ways
HeadFixtures ==
    { Fixture("dump", "plain", ColNames(2), <<StmtHeaded(is_user, Grid(n, 2), h)>>, <<",">>) :
        n \in 1..MaxRows, h \in Heads }

\* a statement for another table with a text value that reads as a statement
\* for is_user
EmbeddedStmt ==
    Stmt(is_admin,
         << << StrField(InsertHead(is_user)
                        \o <<" ","V","A","L","U","E","S"," ","(","7",",","8",")",";">>),
               StrField(<<"o", "2">>) >> >>)

\* a statement for is_user before or after that statement
EmbeddedFixtures ==
    { Fixture("dump", "plain", ColNames(2),
              IF first THEN <<Stmt(is_user, Grid(n, 2)), EmbeddedStmt>>
              ELSE <<EmbeddedStmt, Stmt(is_user, Grid(n, 2))>>, <<",">>) :
        n \in 1..MaxRows, first \in BOOLEAN }

\* a path that cannot be opened, and a file that is not UTF-8
MissingFixture == Fixture("missing", "none", <<>>, <<>>, <<>>)
UndecodableFixture == Fixture("undecodable", "none", <<>>, <<>>, <<>>)

Fixtures ==
    SpecialFixtures \cup ArityFixtures \cup GarbageFixtures
    \cup HeadFixtures \cup EmbeddedFixtures
    \cup {DoubledQuoteFixture, TwoTuplesFixture, MissingFixture, UndecodableFixture}

FileOf(fx) ==
    IF fx.kind = "missing" THEN [exists |-> FALSE, decodable |-> FALSE, text |-> <<>>]
    ELSE IF fx.kind = "undecodable" THEN [exists |-> TRUE, decodable |-> FALSE, text |-> <<>>]
    ELSE [exists |-> TRUE, decodable |-> TRUE, text |-> Render(fx)]

----------------------------------------------------------------------------
(* parse_sql_file run on a fixture (Spec).                                 *)

Init ==
    /\ pc = "start"
    /\ fixture \in Fixtures
    /\ file = FileOf(fixture)
    /\ content = <<>>
    /\ datasets = <<>>
    /\ result = NoResult
    /\ values_string = <<>>
    /\ i = InitScan.i
    /\ in_quotes = InitScan.in_quotes
    /\ quote_char = InitScan.quote_char
    /\ current_value = InitScan.current_value
    /\ current_row = InitScan.current_row
    /\ rows = InitScan.rows
    /\ token = <<>>
    /\ cleaned = None
    /\ ToolConstructed

\* lines 94-96: open and read the file; lines 113-114 when that raises
ReadFile ==
    /\ pc = "start"
    /\ LET o == ReadOutcome(file) IN
       IF o.raised
       THEN pc' = "raised" /\ UNCHANGED content
       ELSE pc' = "extract" /\ content' = o.content
    /\ UNCHANGED <<tok_vars, clean_vars, tool_vars, fixture, file, datasets, result>>

\* lines 99-103: the next call of extract_table_data
ExtractNext ==
    /\ pc = "extract"
    /\ Len(datasets) < Len(TableNames)
    /\ LET o == ExtractOutcome(content, TableNames[Len(datasets) + 1]) IN
       IF o.raised
       THEN pc' = "raised" /\ UNCHANGED datasets
       ELSE pc' = pc /\ datasets' = Append(datasets, o.value)
    /\ UNCHANGED <<tok_vars, clean_vars, tool_vars, fixture, file, content, result>>

\* lines 105-111: return the Extraction Result
Return ==
    /\ pc = "extract"
    /\ Len(datasets) = Len(TableNames)
    /\ result' = ResultOf(datasets)
    /\ pc' = "returned"
    /\ UNCHANGED <<tok_vars, clean_vars, tool_vars, fixture, file, content, datasets>>

Next == ReadFile \/ ExtractNext \/ Return

Spec == Init /\ [][Next]_vars

----------------------------------------------------------------------------
(* What a fixture is known to hold.                                        *)

\* the tuples of the statements for table, in file order
RECURSIVE KnownRows(_, _)
KnownRows(stmts, table) ==
    IF stmts = <<>> THEN <<>>
    ELSE (IF Head(stmts).table = table THEN Head(stmts).rows ELSE <<>>)
         \o KnownRows(Tail(stmts), table)

\* the Record of a known tuple
KnownRecord(cols, row) == [c \in 1..Len(cols) |-> <<cols[c], Known(row[c])>>]

\* the Records of the known tuples whose arity is that of the columns, in order
RECURSIVE KnownRecords(_, _)
KnownRecords(cols, rws) ==
    IF rws = <<>> THEN <<>>
    ELSE (IF Len(Head(rws)) = Len(cols) THEN <<KnownRecord(cols, Head(rws))>> ELSE <<>>)
         \o KnownRecords(cols, Tail(rws))

\* a field written as NULL or as a quoted, backslash-escaped literal
Escaped(f) == f.k \in {"null", "str"}

\* a field the dump text shows as it is: no ';' and no backslash at its end
Plain(f) ==
    /\ Escaped(f)
    /\ \A k \in 1..Len(f.v) : f.v[k] # ";"
    /\ ~EndsWith(f.v, <<"\\">>)

AllFields(fx, P(_)) ==
    \A s \in 1..Len(fx.stmts) : \A r \in 1..Len(fx.stmts[s].rows) :
        \A c \in 1..Len(fx.stmts[s].rows[r]) : P(fx.stmts[s].rows[r][c])

HasCreate(fx) == fx.create \in {"plain", "mixed"}

\* every statement is written in a way the pattern of line 121 matches
MatchedHeads(fx) ==
    \A s \in 1..Len(fx.stmts) :
        fx.stmts[s].head \in {"plain", "lower", "collist", "nlvalues"}

\* the dataset of is_user, once extracted
UsersExtracted == pc \in {"extract", "returned"} /\ Len(datasets) >= 1
Users == datasets[1]

\* the rows the tokenizer gives for the statements of table, in order
RECURSIVE TokenizedRows(_)
TokenizedRows(matches) ==
    IF matches = <<>> THEN <<>>
    ELSE parse_values_string(ValuesText(Head(matches))) \o TokenizedRows(Tail(matches))

----------------------------------------------------------------------------
(* The claims.                                                             *)

\* C1: in parse_values_string a ',' or ')' met in quoted mode never ends a token
\* and never ends a row: the step appends it to the current token, leaves
\* current_row and rows as they are, and stays in quoted mode.
C1_QuotedSeparatorAppended ==
    [][ ( /\ pc = "scan"
          /\ i < Len(values_string)
          /\ in_quotes
          /\ values_string[i + 1] \in {",", ")"} )
        => ( /\ current_value' = Append(current_value, values_string[i + 1])
             /\ current_row' = current_row
             /\ rows' = rows
             /\ in_quotes' ) ]_vars

\* C1 witness: the text ',)' in single quotes comes back as one row of one token
C1_Witness ==
    /\ pc = "tok_done"
    /\ values_string = <<"'", ",", ")", "'">>
    /\ rows = << <<Text(<<",", ")">>)>> >>

\* C2 as stated: the tuple (NULL, 'a,b', 'it''s') against three columns yields
\* {col1: null, col2: "a,b", col3: "it's"}.
C2_DoubledQuoteResolved ==
    (pc = "returned" /\ fixture = DoubledQuoteFixture) =>
        result.users = << << <<<<"c","o","l","1">>, None>>,
                             <<<<"c","o","l","2">>, Text(<<"a", ",", "b">>)>>,
                             <<<<"c","o","l","3">>, Text(<<"i", "t", "'", "s">>)>> >> >>

\* C2 amended: that tuple yields {col1: null, col2: "a,b", col3: "it''s"}, the
\* doubled quote kept as two quote characters; the backslash-escaped literal
\* 'it\'s' is the one that yields "it's".
C2_DoubledQuoteKept ==
    /\ (pc = "returned" /\ fixture = DoubledQuoteFixture) =>
          result.users = << << <<<<"c","o","l","1">>, None>>,
                               <<<<"c","o","l","2">>, Text(<<"a", ",", "b">>)>>,
                               <<<<"c","o","l","3">>, Text(<<"i", "t", "'", "'", "s">>)>> >> >>
    /\ (pc = "returned" /\ fixture.kind = "dump"
        /\ KnownRows(fixture.stmts, is_user) = << <<StrField(<<"i", "t", "'", "s">>)>> >>) =>
          result.users = << << <<ColName(1), Text(<<"i", "t", "'", "s">>)>> >> >>

C2_Witness ==
    /\ pc = "returned"
    /\ fixture = DoubledQuoteFixture
    /\ Len(result.users) = 1
    /\ result.users[1][1][2] = None

\* C3: a tokenized row becomes a Record iff it has as many values as there are
\* columns; a row of another arity is dropped, nothing is raised, and every
\* other row of the same and of the other statements is still there (the
\* tokenized rows are compared in the state that follows the extraction).
C3_ArityDecides ==
    (fixture.kind = "dump") =>
        /\ pc # "raised"
        /\ (UsersExtracted /\ Len(datasets) = 1) =>
             LET columns == Columns(content, is_user)
                 toks == TokenizedRows(FindAllInsert(content, is_user, 1))
                 kept == SelectSeq(toks, LAMBDA r : Len(r) = Len(columns))
             IN  /\ Len(Users) = Len(kept)
                 /\ \A k \in 1..Len(kept) : \A c \in 1..Len(columns) :
                       Users[k][c] = <<columns[c], kept[k][c]>>
        /\ (UsersExtracted /\ HasCreate(fixture) /\ AllFields(fixture, Plain)
            /\ MatchedHeads(fixture)) =>
             LET known == KnownRows(fixture.stmts, is_user)
                 fits == {r \in 1..Len(known) : Len(known[r]) = Len(fixture.cols)}
             IN  /\ Len(Users) = Cardinality(fits)
                 /\ {Users[k] : k \in 1..Len(Users)}
                      = {KnownRecord(fixture.cols, known[r]) : r \in fits}

\* C3 witness: two statements, the first holding one row with a value too many;
\* the row of the second statement is the only Record
C3_Witness ==
    /\ pc = "returned"
    /\ Len(fixture.stmts) = 2
    /\ Len(fixture.cols) = 2
    /\ Len(fixture.stmts[1].rows[1]) = 3
    /\ fixture.stmts[2].table = is_user
    /\ result.users = <<KnownRecord(fixture.cols, fixture.stmts[2].rows[1])>>

\* C4: the dataset lists one Record per tuple of matching arity in encounter
\* order, statements in file order and tuples in textual order; the tuple-list
\* ('x','1'),('y','2') against two columns yields two Records, x then y.
C4_EncounterOrder ==
    /\ (UsersExtracted /\ fixture.kind = "dump" /\ HasCreate(fixture)
        /\ AllFields(fixture, Plain) /\ MatchedHeads(fixture)) =>
          Users = KnownRecords(fixture.cols, KnownRows(fixture.stmts, is_user))
    /\ (UsersExtracted /\ fixture = TwoTuplesFixture) =>
          Users = << << <<ColName(1), Text(<<"x">>)>>, <<ColName(2), Text(<<"1">>)>> >>,
                     << <<ColName(1), Text(<<"y">>)>>, <<ColName(2), Text(<<"2">>)>> >> >>

\* C4 witness: two statements for is_user around one for another table, each
\* giving its Record in file order
C4_Witness ==
    /\ pc = "returned"
    /\ Len(fixture.stmts) = 3
    /\ Len(result.users) = 2
    /\ result.users[1] = KnownRecord(fixture.cols, fixture.stmts[1].rows[1])
    /\ result.users[2] = KnownRecord(fixture.cols, fixture.stmts[3].rows[1])

\* C5: for a CREATE TABLE body that mixes column lines with PRIMARY KEY and KEY
\* lines, the Column List is the names of the column lines in textual order,
\* and every Record has exactly those keys.
C5_ConstraintLinesSkipped ==
    (pc \in {"extract", "returned"} /\ fixture.kind = "dump" /\ fixture.create = "mixed") =>
        /\ Columns(content, is_user) = fixture.cols
        /\ Len(datasets) >= 1 =>
             \A k \in 1..Len(Users) :
                 [c \in 1..Len(Users[k]) |-> Users[k][c][1]] = fixture.cols

C5_Witness ==
    /\ pc = "returned"
    /\ fixture.create = "mixed"
    /\ Len(fixture.cols) = 2
    /\ Len(result.users) >= 1
    /\ Columns(content, is_user) = <<ColName(1), ColName(2)>>

\* the tables a fixture has an INSERT statement for
InsertedTables(fx) == {fx.stmts[s].table : s \in 1..Len(fx.stmts)}

\* C6: when a requested table has no INSERT statement in the dump, nothing is
\* raised and the Extraction Result holds the empty sequence for that table.
C6_AbsentTableEmpty ==
    (fixture.kind = "dump") =>
        /\ pc # "raised"
        /\ \A k \in 1..Len(datasets) :
              TableNames[k] \notin InsertedTables(fixture) => datasets[k] = <<>>
        /\ pc = "returned" =>
              /\ DOMAIN result = {"users", "admins", "accounts", "tickets", "ssl"}
              /\ is_admin \notin InsertedTables(fixture) => result.admins = <<>>
              /\ result.accounts = <<>> /\ result.tickets = <<>> /\ result.ssl = <<>>

C6_Witness ==
    /\ pc = "returned"
    /\ is_admin \notin InsertedTables(fixture)
    /\ result.users # <<>>
    /\ result.admins = <<>>
    /\ result.ssl = <<>>

\* C7: when the file cannot be opened, parse_sql_file raises, no extraction is
\* attempted and no result, partial or whole, is returned.
C7_FileErrorRaises ==
    (fixture.kind = "missing") =>
        /\ pc \in {"start", "raised"}
        /\ content = <<>>
        /\ datasets = <<>>
        /\ result = NoResult

C7_Witness == pc = "raised" /\ fixture.kind = "missing" /\ ~file.exists

\* C8: the file error is the only failure: parse_sql_file raises only when the
\* file could not be read, and once it is read every call of
\* extract_table_data hands back a dataset, whatever the dump text holds
\* (checked for each call in the state that follows it).
C8_OnlyFileErrorRaised ==
    /\ pc = "raised" => ~(file.exists /\ file.decodable)
    /\ (file.exists /\ file.decodable /\ pc # "start") =>
          /\ pc \in {"extract", "returned"}
          /\ content = file.text
          /\ Len(datasets) >= 1 =>
                ExtractOutcome(content, TableNames[Len(datasets)])
                    = [raised |-> FALSE, value |-> datasets[Len(datasets)]]

\* C8 witness: a dump whose only tuple is the malformed text (') comes back
\* with an empty dataset
C8_Witness ==
    /\ pc = "returned"
    /\ fixture \in GarbageFixtures
    /\ fixture.stmts[1].rows[1][1].v = <<")">>
    /\ result.users = <<>>

\* a fixture of the round trip: a CREATE TABLE block, every tuple of the arity
\* of the columns, every field NULL or a quoted, backslash-escaped literal,
\* every statement written as INSERT INTO `table` VALUES
RoundTripFixture(fx) ==
    /\ fx.kind = "dump"
    /\ HasCreate(fx)
    /\ AllFields(fx, Escaped)
    /\ \A s \in 1..Len(fx.stmts) : fx.stmts[s].head = "plain"
    /\ \A s \in 1..Len(fx.stmts) : \A r \in 1..Len(fx.stmts[s].rows) :
          Len(fx.stmts[s].rows[r]) = Len(fx.cols)

\* C9: round trip: a dump written from M columns and N rows of known values
\* yields exactly N Records with the M column keys and the known values.
C9_RoundTrip ==
    (pc = "returned" /\ RoundTripFixture(fixture)) =>
        result.users = KnownRecords(fixture.cols, KnownRows(fixture.stmts, is_user))

\* C10: INSERT statements without a CREATE TABLE block: nothing is raised, the
\* Column List is empty and the dataset is empty whatever the statements hold.
C10_NoCreateNoRecords ==
    (fixture.kind = "dump" /\ fixture.create = "none") =>
        /\ pc # "raised"
        /\ pc \in {"extract", "returned"} => Columns(content, is_user) = <<>>
        /\ UsersExtracted => Users = <<>>
        /\ pc = "returned" => result.users = <<>>

\* C10 witness: the statements were found and tokenized, and no row was kept
C10_Witness ==
    /\ pc = "returned"
    /\ fixture.create = "none"
    /\ Len(TokenizedRows(FindAllInsert(content, is_user, 1))) = 2
    /\ result.users = <<>>

----------------------------------------------------------------------------
(* Claims about clean_value, checked under SpecClean.                      *)

\* the token has the quote q at both ends, and they are two characters
QuotedBy(t, q) == Len(t) >= 2 /\ t[1] = q /\ t[Len(t)] = q

\* the inner text with the escaped quote resolved, then the escaped backslash
Unescaped(inner, q) ==
    Replace(Replace(inner, <<"\\", q>>, <<q>>), <<"\\", "\\">>, <<"\\">>)

HasBackslash(t) == \E k \in 1..Len(t) : t[k] = "\\"

\* C14: clean_value returns null exactly for the tokens that, trimmed, spell
\* NULL in any letter case; a quoted NULL spelling yields that spelling as a
\* text, never null.
C14_NullIffSpelledNull ==
    pc = "cleaned" =>
        /\ (cleaned = None) <=> (token \in PaddedNulls)
        /\ \A q \in {"'", "\""} : \A n \in NullSpellings :
               token = Quoted(q, n) => cleaned = Text(n)

C14_Witness ==
    /\ pc = "cleaned"
    /\ token = <<" ", "n", "U", "l", "L">>
    /\ cleaned = None

\* C15: for a token between a pair of single quotes clean_value returns the
\* inner text with every backslash-quote replaced by the quote and then every
\* double backslash by one backslash; the same with the double quote for a
\* token between a pair of double quotes; an inner text without a backslash
\* is returned as it is.
C15_UnescapeInOrder ==
    pc = "cleaned" =>
        \A q \in {"'", "\""} :
            QuotedBy(token, q) =>
                /\ cleaned = Text(Unescaped(Inner(token), q))
                /\ ~HasBackslash(Inner(token)) => cleaned = Text(Inner(token))

C15_Witness ==
    /\ pc = "cleaned"
    /\ token = <<"'", "\\", "\\", "'", "'">>
    /\ cleaned = Text(<<"\\", "'">>)

\* C16: for every token that is no spelling of NULL and is not between a
\* matching pair of quotes, clean_value returns the token as it is.
C16_OtherTokensVerbatim ==
    (/\ pc = "cleaned"
     /\ token = Strip(token)
     /\ token \notin NullSpellings
     /\ ~QuotedBy(token, "'")
     /\ ~QuotedBy(token, "\""))
        => cleaned = Text(token)

----------------------------------------------------------------------------
(* Claims about quoted mode, checked under SpecTok.                        *)

\* C19: in parse_values_string a quote character that follows a backslash
\* inside a literal opened by that quote does not close the literal: the step
\* appends it to the current token, ends no token and no row, and the scan
\* stays in quoted mode under the same quote.
C19_EscapedQuoteStaysQuoted ==
    [][ ( /\ pc = "scan"
          /\ i < Len(values_string)
          /\ in_quotes
          /\ values_string[i + 1] = quote_char
          /\ i > 0
          /\ values_string[i] = "\\" )
        => ( /\ current_value' = Append(current_value, values_string[i + 1])
             /\ current_row' = current_row
             /\ rows' = rows
             /\ in_quotes'
             /\ quote_char' = quote_char ) ]_vars

\* C19 witness: in the text quote, backslash, quote, comma the comma after the
\* escaped quote belongs to the one token of the one row
C19_Witness ==
    /\ pc = "tok_done"
    /\ values_string = <<"'", "\\", "'", ",">>
    /\ in_quotes
    /\ rows = << <<Text(<<"'", "\\", "'", ",">>)>> >>

\* C20: quoted mode is left only on the quote character that opened it: a step
\* that meets the other quote character inside a literal appends it and stays
\* in quoted mode under the opening quote, and every step that leaves quoted
\* mode is a step on the opening quote.
C20_OnlyOpeningQuoteCloses ==
    [][ ( /\ pc = "scan"
          /\ i < Len(values_string)
          /\ in_quotes )
        => ( /\ ( /\ values_string[i + 1] \in {"'", "\""}
                  /\ values_string[i + 1] # quote_char )
                => ( /\ current_value' = Append(current_value, values_string[i + 1])
                     /\ current_row' = current_row
                     /\ rows' = rows
                     /\ in_quotes'
                     /\ quote_char' = quote_char )
             /\ ~in_quotes' => values_string[i + 1] = quote_char ) ]_vars

\* C20 witness: a double quote and a comma between single quotes come back as
\* one row of one token
C20_Witness ==
    /\ pc = "tok_done"
    /\ values_string = <<"'", "\"", ",", "'">>
    /\ ~in_quotes
    /\ rows = << <<Text(<<"\"", ",">>)>> >>

----------------------------------------------------------------------------
(* Claims about the statements matched and the Records built from them,    *)
(* checked under Spec.                                                     *)

\* the tuple-lists of the statements of fx for table, in file order
RECURSIVE KnownTupleLists(_, _, _)
KnownTupleLists(stmts, sep, table) ==
    IF stmts = <<>> THEN <<>>
    ELSE (IF Head(stmts).table = table THEN <<TupleList(Head(stmts), sep)>> ELSE <<>>)
         \o KnownTupleLists(Tail(stmts), sep, table)

\* the extraction of is_user has just been done
UsersJustExtracted == pc = "extract" /\ Len(datasets) = 1

\* C11: the statements matched for a table are, in file order, the statements
\* written for it, one captured text each, and the captured text is the
\* tuple-list as written: the text from VALUES to the semicolon that ends the
\* statement, the first one outside a quoted literal.
C11_CapturedToTerminator ==
    (UsersJustExtracted /\ fixture \in SpecialFixtures \cup ArityFixtures) =>
        FindAllInsert(content, is_user, 1)
            = KnownTupleLists(fixture.stmts, fixture.sep, is_user)

\* C12: a statement is matched, and gives the same tuple-list, however its
\* head is written: keywords in lower case, spaces or a newline between
\* INSERT INTO and the table name, a newline or a column list between the
\* table name and VALUES.
C12_HeadVariantsMatched ==
    (UsersJustExtracted /\ fixture \in HeadFixtures) =>
        FindAllInsert(content, is_user, 1)
            = <<TupleList(fixture.stmts[1], fixture.sep)>>

\* the fixture with every statement written as INSERT INTO `table` VALUES
PlainHeaded(fx) ==
    [fx EXCEPT !.stmts = [k \in 1..Len(fx.stmts) |-> [fx.stmts[k] EXCEPT !.head = "plain"]]]

\* C13: every Record has the columns of the Column List as its keys, in the
\* order of the CREATE TABLE block, the i-th key holding the normalized i-th
\* value of the tuple; a column list written in the INSERT statement changes
\* nothing.
C13_PositionalMapping ==
    (UsersJustExtracted /\ fixture.kind = "dump") =>
        /\ \A k \in 1..Len(Users) :
              [c \in 1..Len(Users[k]) |-> Users[k][c][1]] = Columns(content, is_user)
        /\ (HasCreate(fixture) /\ AllFields(fixture, Plain) /\ MatchedHeads(fixture)) =>
              LET known == KnownRows(fixture.stmts, is_user)
                  kept == SelectSeq(known, LAMBDA r : Len(r) = Len(fixture.cols))
              IN  /\ Len(Users) = Len(kept)
                  /\ \A k \in 1..Len(kept) : \A c \in 1..Len(fixture.cols) :
                        Users[k][c] = <<fixture.cols[c], Known(kept[k][c])>>
        /\ MatchedHeads(fixture) =>
              Users = extract_table_data(Render(PlainHeaded(fixture)), is_user)

\* C13 witness: the statement lists the columns as (c2, c1); the first value
\* of the tuple is under c1 and the second under c2
C13_Witness ==
    /\ UsersJustExtracted
    /\ fixture.kind = "dump"
    /\ Len(fixture.stmts) = 1
    /\ fixture.stmts[1].head = "collist"
    /\ Users[1] = << <<ColName(1), Text(<<"1", "a">>)>>, <<ColName(2), Text(<<"1", "b">>)>> >>

\* the fixture without the statements for other tables
OnlyTable(fx, table) ==
    [fx EXCEPT !.stmts = SelectSeq(@, LAMBDA st : st.table = table)]

\* C18: the dataset of a table is the one extracted from the dump without the
\* INSERT statements for other tables: those statements add no Record, remove
\* none and change none.
C18_OtherTablesNoEffect ==
    (UsersJustExtracted /\ fixture.kind = "dump") =>
        Users = extract_table_data(Render(OnlyTable(fixture, is_user)), is_user)

----------------------------------------------------------------------------
(* Claims about rows and tokens, checked under SpecTok.                    *)

\* the 0-based index of the first '(' after index k, or Len(vs) if there is none
RECURSIVE NextOpenParen(_, _)
NextOpenParen(vs, k) ==
    IF k + 1 >= Len(vs) THEN Len(vs)
    ELSE IF vs[k + 2] = "(" THEN k + 1
    ELSE NextOpenParen(vs, k + 1)

IsBlank(t) == \A k \in 1..Len(t) : t[k] = " "

\* C21: a step on ')' outside quotes closes the current row (with the pending
\* token, if it is not blank) and resets both accumulators; the scan goes on
\* at the character after the next '(', nothing between being added to a
\* token; with no further '(' it goes to the end of the text, so the rows
\* returned are the rows as they are after that step.
C21_CloseRowSkipsToParen ==
    [][ ( /\ pc = "scan"
          /\ i < Len(values_string)
          /\ ~in_quotes
          /\ values_string[i + 1] = ")" )
        => ( /\ current_value' = <<>>
             /\ current_row' = <<>>
             /\ ~in_quotes'
             /\ IF IsBlank(current_value)
                THEN rows' = (IF current_row = <<>> THEN rows ELSE Append(rows, current_row))
                ELSE /\ Len(rows') = Len(rows) + 1
                     /\ SubSeq(rows', 1, Len(rows)) = rows
                     /\ Len(rows'[Len(rows')]) = Len(current_row) + 1
                     /\ SubSeq(rows'[Len(rows')], 1, Len(current_row)) = current_row
             /\ LET q == NextOpenParen(values_string, i)
                IN  /\ i' = (IF q < Len(values_string) THEN q + 1 ELSE Len(values_string))
                    /\ q = Len(values_string) => parse_values_string(values_string) = rows' ) ]_vars

\* C21 witness: after a),( the scan stands behind the '(' with the row (a)
\* closed and nothing pending
C21_Witness ==
    /\ pc = "scan"
    /\ values_string = <<"a", ")", ",", "(">>
    /\ i = 4
    /\ rows = << <<Text(<<"a">>)>> >>
    /\ current_row = <<>>
    /\ current_value = <<>>

\* C22: when the text ends outside quotes without a final ')', the pending
\* token and the pending row are flushed, so the rows returned are those
\* returned for the same text closed by ')'.
C22_FlushAsIfClosed ==
    (pc = "tok_done" /\ ~in_quotes) =>
        /\ rows = parse_values_string(Append(values_string, ")"))
        /\ (~IsBlank(current_value) \/ current_row # <<>>) => rows # <<>>

\* C22 witness: the text a,a without ')' comes back as the row (a, a)
C22_Witness ==
    /\ pc = "tok_done"
    /\ values_string = <<"a", ",", "a">>
    /\ rows = << <<Text(<<"a">>), Text(<<"a">>)>> >>

\* the scan is in quoted mode on a ',' that is followed by '('
QuotedCommaParen ==
    /\ pc = "scan"
    /\ i + 1 < Len(values_string)
    /\ in_quotes
    /\ values_string[i + 1] = ","
    /\ values_string[i + 2] = "("

\* C23 as stated: a ',' followed by '(' inside a quoted string is taken for a
\* tuple boundary: the step on it ends the token or the row.
C23_QuotedBoundarySplits ==
    [][ QuotedCommaParen => (current_row' # current_row \/ rows' # rows) ]_vars

\* C23, amended: a ',' followed by '(' inside a quoted string is no tuple
\* boundary: the step on ',' appends it, ends no token and no row, skips
\* nothing and stays in quoted mode, and so does the step on the '('.
C23_QuotedBoundaryKept ==
    [][ ( QuotedCommaParen
          \/ ( /\ pc = "scan"
               /\ i < Len(values_string)
               /\ in_quotes
               /\ values_string[i + 1] = "("
               /\ i > 0
               /\ values_string[i] = "," ) )
        => ( /\ current_value' = Append(current_value, values_string[i + 1])
             /\ current_row' = current_row
             /\ rows' = rows
             /\ i' = i + 1
             /\ in_quotes' ) ]_vars

\* C23 witness: the text ,( between single quotes comes back as one row of
\* one token
C23_Witness ==
    /\ pc = "tok_done"
    /\ values_string = <<"'", ",", "(", "'">>
    /\ rows = << <<Text(<<",", "(">>)>> >>

\* the number of backslashes that end at index k (0-based) of vs
RECURSIVE BackslashesBefore(_, _)
BackslashesBefore(vs, k) ==
    IF k >= 1 /\ vs[k] = "\\" THEN 1 + BackslashesBefore(vs, k - 1) ELSE 0

\* C24: a quote character that follows an escaped backslash (an even, non-zero
\* number of backslashes) inside a literal opened by that quote closes the
\* literal: the step on it leaves quoted mode.
C24_EscapedBackslashCloses ==
    [][ ( /\ pc = "scan"
          /\ i < Len(values_string)
          /\ in_quotes
          /\ values_string[i + 1] = quote_char
          /\ BackslashesBefore(values_string, i) > 0
          /\ BackslashesBefore(values_string, i) % 2 = 0 )
        => ~in_quotes' ]_vars

\* the quote that is open after the first k characters of vs, or NoChar
RECURSIVE QuoteOpenAfter(_, _)
QuoteOpenAfter(vs, k) ==
    IF k = 0 THEN NoChar
    ELSE LET q == QuoteOpenAfter(vs, k - 1)
             c == vs[k]
         IN  IF q = NoChar THEN (IF c \in {"'", "\""} THEN c ELSE NoChar)
             ELSE IF c = q /\ (k = 1 \/ vs[k - 1] # "\\") THEN NoChar
             ELSE q

\* the places of vs that hold the character c outside quotes
PlacesOutside(vs, c) ==
    {k \in 1..Len(vs) : vs[k] = c /\ QuoteOpenAfter(vs, k - 1) = NoChar}

\* a text that is one tuple: no ')' outside quotes but, at most, the last character
TupleText(vs) == PlacesOutside(vs, ")") \subseteq {Len(vs)}

CommasOutside(vs) == Cardinality(PlacesOutside(vs, ","))

\* the text of a tuple after its last ',' outside quotes
LastPosition(vs) ==
    LET commas == PlacesOutside(vs, ",")
        from == IF commas = {} THEN 1
                ELSE 1 + CHOOSE k \in commas : \A j \in commas : j <= k
        to == IF Len(vs) \in PlacesOutside(vs, ")") THEN Len(vs) - 1 ELSE Len(vs)
    IN  SubSeq(vs, from, to)

\* C25 as stated: the row returned for a tuple has one token more than the
\* tuple has commas outside quotes, empty positions included.
C25_TokensAreCommasPlusOne ==
    (pc = "tok_done" /\ TupleText(values_string) /\ rows # <<>>) =>
        /\ Len(rows) = 1
        /\ Len(rows[1]) = 1 + CommasOutside(values_string)

\* C25, amended: the row returned for a tuple has as many tokens as the tuple
\* has commas outside quotes, and one more when the text after the last such
\* comma is not blank; a tuple with no comma and nothing but blanks gives no
\* row.
C25_TokensAreCommasPlusLast ==
    (pc = "tok_done" /\ TupleText(values_string)) =>
        LET n == CommasOutside(values_string)
                 + (IF IsBlank(LastPosition(values_string)) THEN 0 ELSE 1)
        IN  IF n = 0 THEN rows = <<>>
            ELSE Len(rows) = 1 /\ Len(rows[1]) = n

\* C25 witness: a,,a comes back as three tokens, the second one empty
C25_Witness ==
    /\ pc = "tok_done"
    /\ values_string = <<"a", ",", ",", "a">>
    /\ rows = << <<Text(<<"a">>), Text(<<>>), Text(<<"a">>)>> >>

\* C26: parse_values_string terminates: every iteration of the outer loop
\* leaves the scan index strictly greater than before and never beyond the
\* end of the text (the skip to '(' included), and every call returns.
C26_Terminates ==
    /\ [][ (pc = "scan" /\ i < Len(values_string))
            => (i' > i /\ i' <= Len(values_string)) ]_vars
    /\ <>(pc = "tok_done")

\* C26 witness: the call on )aa( has returned, the index at the end of the
\* text after one iteration that skipped to the '('
C26_Witness ==
    /\ pc = "tok_done"
    /\ values_string = <<")", "a", "a", "(">>
    /\ i = 4
    /\ rows = <<>>

\* C27: at every step of the scan in_quotes holds exactly when quote_char is a
\* quote character, quote_char being unset otherwise, and in quoted mode the
\* scan stands behind the place of a quote character equal to quote_char.
C27_QuoteStateConsistent ==
    (pc \in {"scan", "tok_done"}) =>
        /\ in_quotes <=> quote_char \in {"'", "\""}
        /\ ~in_quotes => quote_char = NoChar
        /\ in_quotes =>
              /\ i >= 1
              /\ \E k \in 0..(i - 1) : values_string[k + 1] = quote_char

\* C27 witness: the scan stands behind an opening double quote
C27_Witness ==
    /\ pc = "scan"
    /\ i = 1
    /\ in_quotes
    /\ quote_char = "\""
    /\ values_string[1] = "\""

----------------------------------------------------------------------------
(* ModernMigrationTool: handlers of the main thread, the worker threads    *)
(* and the callbacks handed to root.after (SpecTool).  A handler runs on   *)
(* the main thread from start to end; a worker takes one step at a time,   *)
(* one loop iteration being one step.                                      *)

\* most threads started in one run of the tool
MaxThreads == 3
\* most rows of is_user and of is_admin in the source
MaxSourceUsers == 1
MaxSourceAdmins == 1
\* the items of the other migration steps, all steps taken together
MaxOtherItems == 2
\* line 2335: the user loop commits after every fifth user
CommitEvery == 5

\* line 2105 and line 2474: a thread not yet run
Thread(target, first) ==
    [target |-> target, pc |-> first, users_todo |-> 0, admins_todo |-> 0,
     i |-> 0, items_todo |-> 0, emails_todo |-> 0]

\* no parser call is running
ParserIdle ==
    /\ pc = "idle"
    /\ values_string = <<>>
    /\ i = InitScan.i
    /\ in_quotes = InitScan.in_quotes
    /\ quote_char = InitScan.quote_char
    /\ current_value = InitScan.current_value
    /\ current_row = InitScan.current_row
    /\ rows = InitScan.rows
    /\ fixture = NoFixture
    /\ file = NoFile
    /\ content = <<>>
    /\ datasets = <<>>
    /\ result = NoResult
    /\ token = <<>>
    /\ cleaned = None

parser_vars == <<pc, tok_vars, file_vars, clean_vars>>

InitTool == ParserIdle /\ ToolConstructed

\* lines 2049-2107: a click on the Start button; valid stands for the checks
\* of lines 2051-2072, confirmed for the answer of line 2075
start_migration ==
    /\ start_btn = "normal"
    /\ Len(threads) < MaxThreads
    /\ \E valid \in BOOLEAN, confirmed \in BOOLEAN :
          IF valid /\ confirmed
          THEN /\ progress_users' = [total |-> 0, completed |-> 0, failed |-> 0]
               /\ password_data' = 0
               /\ migration_running' = TRUE
               /\ start_btn' = "disabled"
               /\ stop_btn' = "normal"
               /\ threads' = Append(threads, Thread("run_migration", "load"))
               /\ UNCHANGED <<email_btn, after_queue>>
          ELSE UNCHANGED tool_vars
    /\ UNCHANGED parser_vars

\* lines 2441-2476: the body of send_emails_only; smtp stands for the check
\* of line 2446, confirmed for the answer of line 2455
SendEmails(smtp, confirmed) ==
    IF password_data > 0 /\ smtp /\ confirmed
    THEN /\ migration_running' = TRUE
         /\ email_btn' = "disabled"
         /\ threads' = Append(threads, Thread("send_password_emails_real", "begin"))
    ELSE UNCHANGED <<migration_running, email_btn, threads>>

\* lines 2439-2476: a click on one of the Send buttons
send_emails_only ==
    /\ email_btn = "normal"
    /\ Len(threads) < MaxThreads
    /\ \E smtp \in BOOLEAN, confirmed \in BOOLEAN : SendEmails(smtp, confirmed)
    /\ UNCHANGED <<start_btn, stop_btn, password_data, progress_users, after_queue>>
    /\ UNCHANGED parser_vars

\* lines 2587-2594: a click on the Stop button
stop_migration ==
    /\ stop_btn = "normal"
    /\ \E confirmed \in BOOLEAN :
          migration_running' = (IF confirmed THEN FALSE ELSE migration_running)
    /\ UNCHANGED <<start_btn, stop_btn, email_btn, password_data, progress_users,
                   threads, after_queue>>
    /\ UNCHANGED parser_vars

\* line 2158-2160: the callback that enables the Send buttons
enable_email_btn ==
    /\ after_queue # <<>>
    /\ Head(after_queue) = "enable_email_btn"
    /\ after_queue' = Tail(after_queue)
    /\ email_btn' = "normal"
    /\ UNCHANGED <<migration_running, start_btn, stop_btn, password_data,
                   progress_users, threads>>
    /\ UNCHANGED parser_vars

\* lines 2415-2437: the completion dialog; Yes calls send_emails_only
show_migration_complete_dialog ==
    /\ after_queue # <<>>
    /\ Head(after_queue) = "show_migration_complete_dialog"
    /\ after_queue' = Tail(after_queue)
    /\ \E smtp \in BOOLEAN, answer \in {"yes", "no", "cancel"}, confirmed \in BOOLEAN :
          IF password_data > 0 /\ smtp /\ answer = "yes" /\ Len(threads) < MaxThreads
          THEN SendEmails(smtp, confirmed)
          ELSE UNCHANGED <<migration_running, email_btn, threads>>
    /\ UNCHANGED <<start_btn, stop_btn, password_data, progress_users>>
    /\ UNCHANGED parser_vars

\* lines 2596-2603
reset_migration_ui ==
    /\ after_queue # <<>>
    /\ Head(after_queue) = "reset_migration_ui"
    /\ after_queue' = Tail(after_queue)
    /\ start_btn' = "normal"
    /\ email_btn' = (IF password_data > 0 THEN "normal" ELSE email_btn)
    /\ stop_btn' = "disabled"
    /\ UNCHANGED <<migration_running, password_data, progress_users, threads>>
    /\ UNCHANGED parser_vars

\* thread t is a migration worker at position p
MigrationAt(t, p) == threads[t].target = "run_migration" /\ threads[t].pc = p
\* thread t is an email worker at position p
EmailAt(t, p) == threads[t].target = "send_password_emails_real" /\ threads[t].pc = p

\* lines 2186-2283: migrate_users_real up to the loops: the source is read
\* (it may raise), total is set, the new database is connected (it may raise)
LoadSource(t) ==
    /\ MigrationAt(t, "load")
    /\ \E outcome \in {"source_raises", "connect_raises", "loaded"},
          nu \in 0..MaxSourceUsers, na \in 0..MaxSourceAdmins :
          IF outcome = "source_raises"
          THEN /\ threads' = [threads EXCEPT ![t].pc = "finally"]
               /\ UNCHANGED progress_users
          ELSE /\ progress_users' = [progress_users EXCEPT !.total = nu + na]
               /\ threads' = [threads EXCEPT
                     ![t].pc = IF nu + na = 0 THEN "other"
                               ELSE IF outcome = "connect_raises" THEN "finally"
                               ELSE "users",
                     ![t].users_todo = nu,
                     ![t].admins_todo = na,
                     ![t].items_todo = MaxOtherItems]
    /\ UNCHANGED <<migration_running, start_btn, stop_btn, email_btn, password_data,
                   after_queue>>
    /\ UNCHANGED parser_vars

\* the counters of progress_data['users'] and password_data after one source
\* row: it exists already or its insert raises (failed), it is migrated
\* (completed), or it is migrated and the commit that follows raises (both)
Counted(outcome) ==
    /\ progress_users' =
          [progress_users EXCEPT
             !.completed = IF outcome \in {"migrated", "commit_raises"} THEN @ + 1 ELSE @,
             !.failed = IF outcome \in {"exists", "raises", "commit_raises"} THEN @ + 1 ELSE @]
    /\ password_data' =
          (IF outcome \in {"migrated", "commit_raises"} THEN password_data + 1
           ELSE password_data)

\* lines 2286-2342: one iteration of the user loop, or its end
MigrateUser(t) ==
    /\ MigrationAt(t, "users")
    /\ IF threads[t].users_todo = 0
       THEN /\ threads' = [threads EXCEPT ![t].pc = "admins"]
            /\ UNCHANGED <<progress_users, password_data>>
       ELSE IF ~migration_running
       THEN /\ threads' = [threads EXCEPT ![t].pc = "finally"]
            /\ UNCHANGED <<progress_users, password_data>>
       ELSE /\ \E outcome \in {"exists", "raises", "migrated", "commit_raises"} :
                 /\ outcome = "commit_raises" => (threads[t].i + 1) % CommitEvery = 0
                 /\ Counted(outcome)
            /\ threads' = [threads EXCEPT ![t].users_todo = @ - 1, ![t].i = @ + 1]
    /\ UNCHANGED <<migration_running, start_btn, stop_btn, email_btn, after_queue>>
    /\ UNCHANGED parser_vars

\* lines 2345-2403: one iteration of the admin loop (it commits after every
\* admin), or its end with the final commit, which may raise
MigrateAdmin(t) ==
    /\ MigrationAt(t, "admins")
    /\ IF threads[t].admins_todo = 0
       THEN /\ \E committed \in BOOLEAN :
                 threads' = [threads EXCEPT ![t].pc = IF committed THEN "other" ELSE "finally"]
            /\ UNCHANGED <<progress_users, password_data>>
       ELSE IF ~migration_running
       THEN /\ threads' = [threads EXCEPT ![t].pc = "finally"]
            /\ UNCHANGED <<progress_users, password_data>>
       ELSE /\ \E outcome \in {"exists", "raises", "migrated", "commit_raises"} :
                 Counted(outcome)
            /\ threads' = [threads EXCEPT ![t].admins_todo = @ - 1]
    /\ UNCHANGED <<migration_running, start_btn, stop_btn, email_btn, after_queue>>
    /\ UNCHANGED parser_vars

\* lines 2126-2150: one item of the other steps, or their end
OtherItem(t) ==
    /\ MigrationAt(t, "other")
    /\ threads' = [threads EXCEPT
          ![t].pc = IF threads[t].items_todo = 0 THEN "complete"
                    ELSE IF ~migration_running THEN "finally"
                    ELSE "other",
          ![t].items_todo = IF @ > 0 /\ migration_running THEN @ - 1 ELSE @]
    /\ UNCHANGED <<migration_running, start_btn, stop_btn, email_btn, password_data,
                   progress_users, after_queue>>
    /\ UNCHANGED parser_vars

\* lines 2152-2172: the migration is complete; the callbacks are handed over
MigrationComplete(t) ==
    /\ MigrationAt(t, "complete")
    /\ after_queue' = after_queue \o <<"enable_email_btn", "show_migration_complete_dialog">>
    /\ threads' = [threads EXCEPT ![t].pc = "finally"]
    /\ UNCHANGED <<migration_running, start_btn, stop_btn, email_btn, password_data,
                   progress_users>>
    /\ UNCHANGED parser_vars

\* lines 2180-2182: the finally block of run_migration; the thread ends
MigrationFinally(t) ==
    /\ MigrationAt(t, "finally")
    /\ migration_running' = FALSE
    /\ after_queue' = Append(after_queue, "reset_migration_ui")
    /\ threads' = [threads EXCEPT ![t].pc = "done"]
    /\ UNCHANGED <<start_btn, stop_btn, email_btn, password_data, progress_users>>
    /\ UNCHANGED parser_vars

\* lines 2480-2499: send_password_emails_real up to the loop; reading the
\* settings may raise
EmailBegin(t) ==
    /\ EmailAt(t, "begin")
    /\ \E read \in BOOLEAN :
          threads' = [threads EXCEPT ![t].pc = IF read THEN "send" ELSE "finally",
                                     ![t].emails_todo = IF read THEN password_data ELSE @]
    /\ UNCHANGED <<migration_running, start_btn, stop_btn, email_btn, password_data,
                   progress_users, after_queue>>
    /\ UNCHANGED parser_vars

\* lines 2501-2538: one email sent or failed, or the end of the loop
EmailSend(t) ==
    /\ EmailAt(t, "send")
    /\ threads' = [threads EXCEPT
          ![t].pc = IF threads[t].emails_todo = 0 \/ ~migration_running THEN "finally"
                    ELSE "send",
          ![t].emails_todo = IF @ > 0 /\ migration_running THEN @ - 1 ELSE @]
    /\ UNCHANGED <<migration_running, start_btn, stop_btn, email_btn, password_data,
                   progress_users, after_queue>>
    /\ UNCHANGED parser_vars

\* lines 2545-2547: the finally block of send_password_emails_real
EmailFinally(t) ==
    /\ EmailAt(t, "finally")
    /\ migration_running' = FALSE
    /\ after_queue' = Append(after_queue, "reset_migration_ui")
    /\ threads' = [threads EXCEPT ![t].pc = "done"]
    /\ UNCHANGED <<start_btn, stop_btn, email_btn, password_data, progress_users>>
    /\ UNCHANGED parser_vars

NextTool ==
    \/ start_migration
    \/ send_emails_only
    \/ stop_migration
    \/ enable_email_btn
    \/ show_migration_complete_dialog
    \/ reset_migration_ui
    \/ \E t \in DOMAIN threads : LoadSource(t)
    \/ \E t \in DOMAIN threads : MigrateUser(t)
    \/ \E t \in DOMAIN threads : MigrateAdmin(t)
    \/ \E t \in DOMAIN threads : OtherItem(t)
    \/ \E t \in DOMAIN threads : MigrationComplete(t)
    \/ \E t \in DOMAIN threads : MigrationFinally(t)
    \/ \E t \in DOMAIN threads : EmailBegin(t)
    \/ \E t \in DOMAIN threads : EmailSend(t)
    \/ \E t \in DOMAIN threads : EmailFinally(t)

SpecTool == InitTool /\ [][NextTool]_vars

----------------------------------------------------------------------------
(* Claims about the worker control, checked under SpecTool.                *)

\* a migration worker is at work: started and not yet in its finally block
Migrating == \E t \in DOMAIN threads : threads[t].target = "run_migration"
                                       /\ threads[t].pc \notin {"finally", "done"}

\* the threads that have not ended
Alive == {t \in DOMAIN threads : threads[t].pc # "done"}

\* C28: while a migration worker is at work, migration_running is cleared
\* only by a confirmed Stop (no thread moves) or by the finally block of a
\* migration worker; the end of an email worker does not clear it.
C28_FlagHeldWhileMigrating ==
    [][ (Migrating /\ migration_running /\ ~migration_running')
        => ( \/ threads' = threads
             \/ \E t \in DOMAIN threads : MigrationAt(t, "finally")
                                           /\ threads'[t].pc = "done" ) ]_vars

\* C29: at most one worker thread is alive at any time.
C29_AtMostOneWorker == Cardinality(Alive) <= 1

\* C30: in progress_data['users'] completed + failed never exceeds total.
C30_UsersCountedOnce ==
    progress_users.completed + progress_users.failed <= progress_users.total

====
